---- MODULE Spec2Model ----
(***************************************************************************)
(* A model of mock_ingestion_pipeline.py: the sliding-window chunker       *)
(* (chunk_text), the mock embedding model, the mock vector database and    *)
(* ProductIngestionPipeline.ingest_product.                                *)
(*                                                                         *)
(* Python values are modelled as follows.                                  *)
(*   None                 the record None                                  *)
(*   a str used opaquely  Str(s), s a TLA+ string (ids, titles, ...)       *)
(*   a str that is split  its characters, a sequence of one-character      *)
(*                        strings (a text, its words, its chunks);         *)
(*                        Text(cs) where it is a value of a dict           *)
(*   an int               Num(n)                                           *)
(*   a dict               a function whose DOMAIN is the set of its keys   *)
(*   a list               a sequence                                       *)
(*   a reference to a     an address: an index into heap, the sequence of  *)
(*   caller's dict        the product dicts the caller has built           *)
(***************************************************************************)
EXTENDS Integers, Sequences, FiniteSets, TLC

VARIABLES
    heap,              \* the caller's product dicts, by address
    products_table,    \* pipeline.products_table: product_id -> address
    store,             \* pipeline.vector_db.store: vector_id -> entry
    embeddings_table,  \* pipeline.embeddings_table: list of records
    uuid_calls,        \* how many times uuid.uuid4() has been called
    calls,             \* how many times ingest_product has been called
    last,              \* what the last ingest_product call did
    chunker            \* a direct call of chunk_text: arguments and outcome

vars == <<heap, products_table, store, embeddings_table, uuid_calls, calls,
          last, chunker>>

----------------------------------------------------------------------------
(* Bounds of the model *)

MaxCalls == 2        \* ingest_product calls in one behaviour
MaxTextLen == 7      \* characters of a text given to chunk_text directly
MaxParam == 4        \* largest max_words / overlap given to chunk_text directly

(* Program constants *)

PipelineMaxWords == 100
PipelineOverlap == 25
EmbedDim == 128
HashMod == 1000
VecMod == 97

----------------------------------------------------------------------------
(* Python values *)

None == [isNone |-> TRUE]
Str(s) == [str |-> s]
Num(n) == [num |-> n]
Text(cs) == [chars |-> cs]

Min(a, b) == IF a < b THEN a ELSE b
Max(a, b) == IF a > b THEN a ELSE b

\* dict.get(key, default)
Get(d, k, default) == IF k \in DOMAIN d THEN d[k] ELSE default

\* seq[start:stop] for a list, with Python's treatment of negative and
\* out-of-range indices
PySlice(seq, start, stop) ==
    LET n == Len(seq)
        norm(k) == IF k < 0 THEN Max(k + n, 0) ELSE Min(k, n)
        lo == norm(start)
        hi == norm(stop)
    IN  IF lo >= hi THEN <<>> ELSE SubSeq(seq, lo + 1, hi)

\* list(range(start, stop, step)) for step > 0
RECURSIVE RangeUp(_, _, _)
RangeUp(start, stop, step) ==
    IF start >= stop THEN <<>>
    ELSE <<start>> \o RangeUp(start + step, stop, step)

\* py_range as it would be were the loop to stop once the words left are
\* no more than one (a window that never starts on the last word)
py_range_stops_early(start, stop, step) ==
    IF step = 0 THEN [raised |-> "ValueError", value |-> <<>>]
    ELSE IF step < 0 THEN [raised |-> "none", value |-> <<>>]
    ELSE [raised |-> "none", value |-> RangeUp(start, stop - 1, step)]

\* range(start, stop, step) as chunk_text uses it (start = 0, stop >= 0):
\* a zero step raises ValueError, a negative step yields nothing
py_range(start, stop, step) ==
    IF step = 0 THEN [raised |-> "ValueError", value |-> <<>>]
    ELSE IF step < 0 THEN [raised |-> "none", value |-> <<>>]
    ELSE [raised |-> "none", value |-> RangeUp(start, stop, step)]

----------------------------------------------------------------------------
(* Chunking utility *)

IsSpace(c) == c \in {" ", "\t", "\n", "\r"}

\* str.split(): the maximal runs of non-whitespace characters, in order.
\* Computed by halves: a word that straddles the middle is the last word of
\* the left half followed by the first word of the right half.
RECURSIVE split(_)
split(text) ==
    LET n == Len(text)
        h == n \div 2
        wl == split(SubSeq(text, 1, h))
        wr == split(SubSeq(text, h + 1, n))
    IN  IF n = 0 THEN <<>>
        ELSE IF n = 1 THEN (IF IsSpace(text[1]) THEN <<>> ELSE <<text>>)
        ELSE IF IsSpace(text[h]) \/ IsSpace(text[h + 1]) THEN wl \o wr
        ELSE SubSeq(wl, 1, Len(wl) - 1) \o <<wl[Len(wl)] \o Head(wr)>>
             \o Tail(wr)

\* " ".join(words), computed by halves
RECURSIVE join(_)
join(words) ==
    LET n == Len(words)
        h == n \div 2
    IN  IF n = 0 THEN <<>>
        ELSE IF n = 1 THEN words[1]
        ELSE join(SubSeq(words, 1, h)) \o <<" ">>
             \o join(SubSeq(words, h + 1, n))

\* the body of the for loop, for the start indices still to visit
RECURSIVE ChunksAt(_, _, _)
ChunksAt(words, starts, max_words) ==
    IF starts = <<>> THEN <<>>
    ELSE <<join(PySlice(words, Head(starts), Head(starts) + max_words))>>
         \o ChunksAt(words, Tail(starts), max_words)

\* chunk_text(text, max_words, overlap): the exception raised ("none" when
\* it returns) and the list returned
chunk_text(text, max_words, overlap) ==
    LET words == split(text)
        step == max_words - overlap
        r == py_range(0, Len(words), step)
    IN  IF r.raised # "none" THEN [raised |-> r.raised, value |-> <<>>]
        ELSE [raised |-> "none",
              value |-> ChunksAt(words, r.value, max_words)]

----------------------------------------------------------------------------
(* Mock embedding model *)

CharCode(c) ==
    CASE c = "a" -> 97 [] c = "b" -> 98 [] c = " " -> 32 [] OTHER -> 0

\* hash(text): CPython's string hash is seeded per process and fixed within
\* it; any fixed function of the text stands for one process's hash
RECURSIVE py_hash(_)
py_hash(text) ==
    LET n == Len(text)
        h == n \div 2
    IN  IF n = 0 THEN 0
        ELSE IF n = 1 THEN CharCode(text[1])
        ELSE (31 * py_hash(SubSeq(text, 1, h))
              + 17 * py_hash(SubSeq(text, h + 1, n)) + n) % 1000003

\* MockEmbeddingModel.embed(text)
embed(text) ==
    LET seed == py_hash(text) % HashMod
    IN  [k \in 1..EmbedDim |-> (seed * (k - 1)) % VecMod]

----------------------------------------------------------------------------
(* Mock vector database *)

\* str(uuid.uuid4()), the n-th identifier drawn in this process: version-4
\* UUIDs are taken to be pairwise distinct, and distinct from the strings
\* callers write
uuid4(n) == Str("uuid-" \o ToString(n))

\* d[k] = v
SetItem(d, k, v) == [x \in DOMAIN d \cup {k} |-> IF x = k THEN v ELSE d[x]]

\* upsert as it would be were the entry keyed by its chunk_id (an update in
\* place of the entry of the same chunk) instead of by a new identifier
upsert_keyed_by_chunk_id(st, n, vector, metadata) ==
    LET vector_id == Str("vector-of-" \o metadata.chunk_id.str)
    IN  [store |-> SetItem(st, vector_id,
                           [vector |-> vector, metadata |-> metadata]),
         vector_id |-> vector_id,
         uuid_calls |-> n + 1]

\* MockVectorDB.upsert(vector, metadata), n identifiers having been drawn
\* before: the store afterwards and the identifier returned
upsert(st, n, vector, metadata) ==
    LET vector_id == uuid4(n + 1)
    IN  [store |-> SetItem(st, vector_id,
                           [vector |-> vector, metadata |-> metadata]),
         vector_id |-> vector_id,
         uuid_calls |-> n + 1]

----------------------------------------------------------------------------
(* Product ingestion pipeline *)

\* str(product_id) inside an f-string
Format(v) == IF v = None THEN "None" ELSE v.str

\* chunk_id as it would be were the chunks numbered from 1
chunk_id_from_one(product_id, idx) ==
    Str(Format(product_id) \o "_" \o ToString(idx + 1))

\* f"{product_id}_{idx}"
chunk_id(product_id, idx) == Str(Format(product_id) \o "_" \o ToString(idx))

\* the for loop of ingest_product from index idx on; s holds the store, the
\* embeddings table, the number of identifiers drawn and the exception raised
RECURSIVE IngestChunks(_, _, _, _, _)
IngestChunks(product, product_id, chunks, idx, s) ==
    IF idx >= Len(chunks) THEN s
    ELSE IF "title" \notin DOMAIN product
    THEN [s EXCEPT !.raised = "KeyError"]
    ELSE
      LET chunk == chunks[idx + 1]
          vector == embed(chunk)
          metadata == [product_id |-> product_id,
                       chunk_id |-> chunk_id(product_id, idx),
                       title |-> product["title"],
                       category |-> Get(product, "category", Str("unknown")),
                       price |-> Get(product, "price", None)]
          up == upsert(s.store, s.uuid_calls, vector, metadata)
          record == [product_id |-> product_id,
                     chunk_id |-> metadata.chunk_id,
                     text_chunk |-> chunk,
                     embedding_model |-> "mock",
                     vector_id |-> up.vector_id]
      IN  IngestChunks(product, product_id, chunks, idx + 1,
                       [store |-> up.store,
                        embeddings_table |-> Append(s.embeddings_table, record),
                        uuid_calls |-> up.uuid_calls,
                        raised |-> "none"])

\* product.get("id", str(uuid.uuid4())): the default is evaluated, and an
\* identifier drawn, whether or not the key is there
resolve_product_id(product, n) == Get(product, "id", uuid4(n + 1))

\* pipeline.ingest_product(product), product being the dict at address a
ingest_product(a) ==
    LET product == heap'[a]
        product_id == resolve_product_id(product, uuid_calls)
        s0 == [store |-> store, embeddings_table |-> embeddings_table,
               uuid_calls |-> uuid_calls + 1, raised |-> "none"]
        description == Get(product, "description", None)
        chunked == chunk_text(description.chars, PipelineMaxWords,
                              PipelineOverlap)
        s1 == IF "description" \notin DOMAIN product
              THEN [s0 EXCEPT !.raised = "KeyError"]
              ELSE IF description = None
              THEN [s0 EXCEPT !.raised = "AttributeError"]
              ELSE IF chunked.raised # "none"
              THEN [s0 EXCEPT !.raised = chunked.raised]
              ELSE IngestChunks(product, product_id, chunked.value, 0, s0)
    IN  /\ calls < MaxCalls
        /\ calls' = calls + 1
        /\ products_table' = SetItem(products_table, product_id, a)
        /\ store' = s1.store
        /\ embeddings_table' = s1.embeddings_table
        /\ uuid_calls' = s1.uuid_calls
        /\ last' = [op |-> "ingest_product", arg |-> a,
                    product_id |-> product_id,
                    raised |-> s1.raised,
                    printed |-> IF s1.raised = "none"
                                THEN <<"Ingested product", product_id,
                                       Len(chunked.value)>>
                                ELSE <<>>,
                    ret |-> None]
        /\ UNCHANGED chunker

----------------------------------------------------------------------------
(* The caller: the product dicts it builds and what it does with them *)

\* n one-letter words, alternately "a" and "b", separated by single spaces
WordsText(n) ==
    [i \in 1..(IF n = 0 THEN 0 ELSE 2 * n - 1) |->
        IF i % 2 = 0 THEN " " ELSE IF i % 4 = 1 THEN "a" ELSE "b"]

EmptyDict == [k \in {} |-> None]

IdOpts == {EmptyDict, [id |-> Str("")], [id |-> Str("P123")]}
TitleOpts == {EmptyDict, [title |-> Str("Noise Cancelling Headphones")]}
DescriptionOpts ==
    {EmptyDict, [description |-> None], [description |-> Text(<<" ">>)],
     [description |-> Text(WordsText(80))]}

\* the product dicts a caller builds: each of id, title and description is
\* there or not; category and price are left out, and price is set later
Products ==
    {i @@ t @@ d : i \in IdOpts, t \in TitleOpts, d \in DescriptionOpts}

\* the caller builds a new dict and ingests it
IngestNew(product) ==
    /\ heap' = Append(heap, product)
    /\ ingest_product(Len(heap) + 1)

\* the caller ingests a dict it has ingested before
IngestAgain(a) ==
    /\ heap' = heap
    /\ ingest_product(a)

\* the caller changes a dict it still holds: product["price"] = 1
CallerSetPrice(a) ==
    /\ Get(heap[a], "price", None) # Num(1)
    /\ heap' = [heap EXCEPT ![a] = SetItem(heap[a], "price", Num(1))]
    /\ UNCHANGED <<products_table, store, embeddings_table, uuid_calls,
                   calls, last, chunker>>

----------------------------------------------------------------------------
(* The pipeline specification *)

\* ProductIngestionPipeline(): the state after construction
Init ==
    /\ heap = <<>>
    /\ products_table = EmptyDict
    /\ store = EmptyDict
    /\ embeddings_table = <<>>
    /\ uuid_calls = 0
    /\ calls = 0
    /\ last = [op |-> "none"]
    /\ chunker = [state |-> "idle"]

Next ==
    \/ \E product \in Products : IngestNew(product)
    \/ \E a \in 1..Len(heap) : IngestAgain(a)
    \/ \E a \in 1..Len(heap) : CallerSetPrice(a)

Spec == Init /\ [][Next]_vars

----------------------------------------------------------------------------
(* The chunker specification: one direct call of chunk_text *)

Alphabet == {"a", "b", " "}

RECURSIVE TextsOfLen(_)
TextsOfLen(n) ==
    IF n = 0 THEN {<<>>}
    ELSE {Append(t, c) : t \in TextsOfLen(n - 1), c \in Alphabet}

Texts == UNION {TextsOfLen(n) : n \in 0..MaxTextLen}

Params == -1..MaxParam

InitChunker ==
    /\ heap = <<>>
    /\ products_table = EmptyDict
    /\ store = EmptyDict
    /\ embeddings_table = <<>>
    /\ uuid_calls = 0
    /\ calls = 0
    /\ last = [op |-> "none"]
    /\ \E text \in Texts, max_words \in Params, overlap \in Params :
          chunker = [state |-> "called", text |-> text,
                     max_words |-> max_words, overlap |-> overlap]

\* chunk_text(text, max_words, overlap) runs to its end
ChunkTextCall ==
    /\ chunker.state = "called"
    /\ LET r == chunk_text(chunker.text, chunker.max_words, chunker.overlap)
       IN  chunker' = [state |-> IF r.raised = "none" THEN "returned"
                                 ELSE "raised",
                       text |-> chunker.text,
                       max_words |-> chunker.max_words,
                       overlap |-> chunker.overlap,
                       raised |-> r.raised,
                       value |-> r.value]
    /\ UNCHANGED <<heap, products_table, store, embeddings_table, uuid_calls,
                   calls, last>>

NextChunker == ChunkTextCall

SpecChunker == InitChunker /\ [][NextChunker]_vars

----------------------------------------------------------------------------
(* Properties of the chunker, checked under SpecChunker *)

\* ceil(a / b) for a >= 0, b > 0
CeilDiv(a, b) == (a + b - 1) \div b

ChunkerDone == chunker.state \in {"returned", "raised"}
ChunkerW == Len(split(chunker.text))
ValidParams == 0 <= chunker.overlap /\ chunker.overlap < chunker.max_words

\* the first / last k words of a chunk (all of them when it has fewer)
FirstWords(chunk, k) ==
    LET w == split(chunk) IN SubSeq(w, 1, Min(k, Len(w)))
LastWords(chunk, k) ==
    LET w == split(chunk) IN SubSeq(w, Len(w) - Min(k, Len(w)) + 1, Len(w))

\* C3: whenever overlap >= max_words or max_words <= 0, chunk_text fails
\* with an error instead of returning chunks (any exception raised is taken
\* for the InvalidArgument failure), and nothing is written to the vector
\* store or the embeddings table.
C3_InvalidParamsRejected ==
    (ChunkerDone /\ (chunker.overlap >= chunker.max_words
                     \/ chunker.max_words <= 0))
    => /\ chunker.state = "raised"
       /\ store = EmptyDict
       /\ embeddings_table = <<>>

C5_ShortTextOneChunk ==
    (ChunkerDone /\ ValidParams
     /\ 0 < ChunkerW /\ ChunkerW < chunker.max_words)
    => /\ chunker.state = "returned"
       /\ chunker.value = <<join(split(chunker.text))>>

\* C6: for 0 <= o < max_words and consecutive chunks i and i+1, the last o
\* words of chunk i are the first o words of chunk i+1, unless chunk i+1 is
\* the final chunk and has fewer than o words.
C6_OverlapCorrect ==
    (ChunkerDone /\ ValidParams)
    => /\ chunker.state = "returned"
       /\ \A i \in 1..(Len(chunker.value) - 1) :
            \/ /\ i + 1 = Len(chunker.value)
               /\ Len(split(chunker.value[i + 1])) < chunker.overlap
            \/ LastWords(chunker.value[i], chunker.overlap)
                 = FirstWords(chunker.value[i + 1], chunker.overlap)

----------------------------------------------------------------------------
(* Properties of the pipeline, checked under Spec *)

\* this step is a call of ingest_product
IngestStep == calls' = calls + 1

\* the dict given to the call this step makes, as it was during the call
GivenProduct == heap'[last'.arg]

\* the chunks chunk_text makes of the given product's description
GivenChunks ==
    chunk_text(GivenProduct["description"].chars, PipelineMaxWords,
               PipelineOverlap).value

\* the records this step appended to the embeddings table
Appended ==
    SubSeq(embeddings_table', Len(embeddings_table) + 1,
           Len(embeddings_table'))

\* the keys this step added to the vector store
NewVectorIds == DOMAIN store' \ DOMAIN store

\* C1: a successful call appends as many embedding records as it creates
\* vector store entries, as many as the description has chunks; the records'
\* vector_ids are pairwise distinct keys of new entries, and each entry's
\* metadata carries its record's chunk_id.
C1_Linkage ==
    [][(IngestStep /\ last'.raised = "none")
       => /\ Len(embeddings_table') >= Len(embeddings_table)
          /\ Len(Appended) = Len(GivenChunks)
          /\ Cardinality(NewVectorIds) = Len(GivenChunks)
          /\ \A i \in 1..Len(Appended) :
               /\ Appended[i].vector_id \in NewVectorIds
               /\ store'[Appended[i].vector_id].metadata.chunk_id
                    = Appended[i].chunk_id
               /\ \A j \in 1..Len(Appended) :
                    Appended[j].vector_id = Appended[i].vector_id => j = i
      ]_vars

\* a second successful call that made two chunks, on ledgers the first call
\* had already filled
C1_Witness ==
    /\ calls = 2
    /\ last.op = "ingest_product"
    /\ last.raised = "none"
    /\ last.printed[3] = 2
    /\ Len(embeddings_table) = 4
    /\ Cardinality(DOMAIN store) = 4

LacksRequired(product) ==
    \/ "description" \notin DOMAIN product
    \/ product["description"] = None
    \/ "title" \notin DOMAIN product

\* C2: a call whose product lacks description (missing or None) or title
\* fails (any exception raised is taken for the InvalidArgument failure) and
\* leaves the products table, the vector store and the embeddings table as
\* they were.
C2_RejectedBeforeSideEffect ==
    [][(IngestStep /\ LacksRequired(GivenProduct))
       => /\ last'.raised # "none"
          /\ products_table' = products_table
          /\ store' = store
          /\ embeddings_table' = embeddings_table
      ]_vars

HasUsableId(product) == "id" \in DOMAIN product /\ product["id"] # Str("")

\* C7: the product_id is the product's id when that is present and
\* non-empty, and otherwise a fresh identifier, non-empty and different
\* from every product_id resolved before; no key of the products table and
\* no product_id in a metadata or a record is the empty string.
C7_ProductIdResolution ==
    [][IngestStep
       => /\ HasUsableId(GivenProduct)
               => last'.product_id = GivenProduct["id"]
          /\ ~HasUsableId(GivenProduct)
               => /\ last'.product_id # Str("")
                  /\ last'.product_id \notin DOMAIN products_table
          /\ Str("") \notin DOMAIN products_table'
          /\ \A v \in DOMAIN store' :
               store'[v].metadata.product_id # Str("")
          /\ \A i \in 1..Len(embeddings_table') :
               embeddings_table'[i].product_id # Str("")
      ]_vars

\* C8: a successful call returns an IngestionResult holding the resolved
\* product_id and the number of chunks processed.
C8_ReturnsIngestionResult ==
    (last.op = "ingest_product" /\ last.raised = "none")
    => last.ret = [product_id |-> last.product_id,
                   chunk_count |-> last.printed[3]]

\* the product the products table holds under key k
LedgerEntry(k) == heap[products_table[k]]

\* C9: the entry the products table holds under a product_id changes only
\* when a call of ingest_product resolves that same product_id.
C9_HeldByValue ==
    [][\A k \in DOMAIN products_table :
          LedgerEntry(k)' # LedgerEntry(k)
          => (IngestStep /\ last'.product_id = k)
      ]_vars

\* C10: the embeddings table only grows at its end; the records a call
\* appends are, in order, one per chunk from chunk 0 on, the record at
\* offset idx having chunk_id "<product_id>_<idx>" and the idx-th chunk as
\* text_chunk; a successful call appends one for every chunk.
C10_AppendOnlyInChunkOrder ==
    [][/\ Len(embeddings_table') >= Len(embeddings_table)
       /\ SubSeq(embeddings_table', 1, Len(embeddings_table))
            = embeddings_table
       /\ ~IngestStep => embeddings_table' = embeddings_table
       /\ (IngestStep /\ Len(Appended) > 0)
            => /\ Len(Appended) <= Len(GivenChunks)
               /\ \A i \in 1..Len(Appended) :
                    /\ Appended[i].product_id = last'.product_id
                    /\ Appended[i].chunk_id.str
                         = last'.product_id.str \o "_" \o ToString(i - 1)
                    /\ Appended[i].text_chunk = GivenChunks[i]
       /\ (IngestStep /\ last'.raised = "none")
            => Len(Appended) = Len(GivenChunks)
      ]_vars

\* two successful calls, two chunks each: four records in the table
C10_Witness ==
    /\ calls = 2
    /\ Len(embeddings_table) = 4
    /\ embeddings_table[3].chunk_id # embeddings_table[4].chunk_id
    /\ embeddings_table[1].product_id # embeddings_table[3].product_id

====
